---- MODULE Spec2Model ----
(***************************************************************************)
(* A model of ardusub_log_tools' segment reading (segment_reader.py): the  *)
(* Segment windows, the SegmentReader cursor, the SegmentReaderList that   *)
(* hands out one cursor per segment over one shared FileReaderList, the    *)
(* parsing of --keep strings and choose_reader_list; and of the table of   *)
(* parameters that tlog_param.py's TelemetryLogParam.handle_param keeps.   *)
(*                                                                         *)
(* FileReader and FileReaderList live in file_reader.py, which is not part *)
(* of the sources at hand: they are modelled from the specification        *)
(* (RecordSource, RecordSourceChain).  What a FileReader decodes from its  *)
(* file is the environment's choice, made when the record is read: a file  *)
(* is a sequence of at most MaxRecs records and a record is known by its   *)
(* file, its index in the file and its timestamp.                          *)
(***************************************************************************)
EXTENDS Integers, Sequences, FiniteSets, TLC

\* Bounds of the model.
MaxFiles == 2
MaxRecs == 2
MaxSegs == 2

\* FileReaderList.current() when there is no current reader (Python's None);
\* the files are numbered from 1.
NoReader == 0

\* The timestamp of a message that has no _timestamp, which is also the
\* timestamp line 57 computes when msg is None.
DefaultTimestamp == 0

\* The values of record timestamps (msg._timestamp) and of the start and end of
\* a Segment built with Segment(start, end): the code only compares a timestamp
\* with a start, with an end and, through the default, with 0.
Timestamps == {DefaultTimestamp, 1}

Files == 1 .. MaxFiles

VARIABLES
    nfiles,     \* FileReaderList._paths: the number of files of the list
    nopened,    \* FileReaderList._paths: how many of them the iterator has handed out
    current,    \* FileReaderList._current: the file of the current FileReader, or NoReader
    off,        \* off[f]: how many records FileReader f has delivered
    eof,        \* eof[f]: FileReader f has raised StopIteration
    nsegs,      \* SegmentReaderList: len(segments)
    seg_pos,    \* SegmentReaderList._segments_iter: how many segments it has handed out
    cursors,    \* the SegmentReader objects, in the order they were produced
    state,      \* "new": before SegmentReaderList(...); "ready"; "raised": __init__ raised;
                \* "call", "returned": before and after a call of a parsing function;
                \* "files", "done": iterating a FileReaderList, and at the end of it
    last,       \* the most recent call: which, on which cursor, what it returned
    ended,      \* history: ended[c], a pull on cursor c has raised StopIteration
    R,          \* history: R[f], the timestamps of the records read from file f so far
    out,        \* history: out[c], the values cursor c has returned, in order
    keep,       \* args.keep: the --keep strings, or None when no --keep was given
    arg,        \* the string handed to parse_segment
    parsed,     \* what parse_segment returned: <<>> for None, else <<segment>>
    segments,   \* what parse_segment_args returned
    reader,     \* what choose_reader_list returned
    params,     \* TelemetryLogParam.params: the Param of each param_id in the dict
    handled     \* history: the PARAM_VALUE messages handle_param has been given, in order

prog == <<nfiles, nopened, current, off, eof, nsegs, seg_pos, cursors, state, last, ended>>
hist == <<R, out>>
cli == <<keep, arg, parsed, segments, reader>>
tlog == <<params, handled>>
vars == <<prog, hist, cli, tlog>>

----------------------------------------------------------------------------
\* Strings and numbers
\*
\* A string is the sequence of its characters. The strings of the model are
\* written with the decimal digits, a few letters, the comma and the slash.
\* A number is a float that holds a whole number >= 0, or NaN.

Digit == <<"0", "1", "2", "3", "4", "5", "6", "7", "8", "9">>

IsDigit(ch) == \E d \in 1 .. 10 : Digit[d] = ch

DigitValue(ch) == (CHOOSE d \in 1 .. 10 : Digit[d] = ch) - 1

AllDigits(str) == str # <<>> /\ \A k \in 1 .. Len(str) : IsDigit(str[k])

RECURSIVE Decimal(_)
Decimal(str) ==
    IF str = <<>> THEN 0
    ELSE 10 * Decimal(SubSeq(str, 1, Len(str) - 1)) + DigitValue(str[Len(str)])

RECURSIVE Pow10(_)
Pow10(n) == IF n = 0 THEN 1 ELSE 10 * Pow10(n - 1)

\* float('nan'), which is no whole number: every comparison with it is false.
NaN == -1

Less(x, y) == x # NaN /\ y # NaN /\ x < y

\* float(str) for the strings of the model: digits, digits 'e' digits, 'nan';
\* anything else raises ValueError (ok is FALSE).
Float(str) ==
    IF str = <<"n", "a", "n">> THEN [ok |-> TRUE, val |-> NaN]
    ELSE IF AllDigits(str) THEN [ok |-> TRUE, val |-> Decimal(str)]
    ELSE IF \E k \in 1 .. Len(str) :
                /\ str[k] = "e"
                /\ AllDigits(SubSeq(str, 1, k - 1))
                /\ AllDigits(SubSeq(str, k + 1, Len(str)))
         THEN LET k == CHOOSE k \in 1 .. Len(str) : str[k] = "e"
              IN  [ok |-> TRUE,
                   val |-> Decimal(SubSeq(str, 1, k - 1))
                               * Pow10(Decimal(SubSeq(str, k + 1, Len(str))))]
         ELSE [ok |-> FALSE, val |-> 0]

\* f'{x :.0f}' (line 20)
RECURSIVE FormatWhole(_)
FormatWhole(n) ==
    IF n < 10 THEN <<Digit[n + 1]>>
    ELSE FormatWhole(n \div 10) \o <<Digit[(n % 10) + 1]>>

Format(x) == IF x = NaN THEN <<"n", "a", "n">> ELSE FormatWhole(x)

\* str.split(',') (line 108)
RECURSIVE Split(_)
Split(str) ==
    IF \A k \in 1 .. Len(str) : str[k] # ","
    THEN <<str>>
    ELSE LET k == CHOOSE k \in 1 .. Len(str) :
                      str[k] = "," /\ \A j \in 1 .. k - 1 : str[j] # ","
         IN  <<SubSeq(str, 1, k - 1)>> \o Split(SubSeq(str, k + 1, Len(str)))

\* str.rstrip('/')
RECURSIVE RStripSlash(_)
RStripSlash(str) ==
    IF str # <<>> /\ str[Len(str)] = "/"
    THEN RStripSlash(SubSeq(str, 1, Len(str) - 1))
    ELSE str

\* os.path.split(path)[0] (line 171): what stands up to the last '/', without
\* its trailing slashes unless it consists of slashes only.
DirName(path) ==
    LET i == IF \E k \in 1 .. Len(path) : path[k] = "/"
             THEN CHOOSE k \in 1 .. Len(path) :
                      path[k] = "/" /\ \A j \in k + 1 .. Len(path) : path[j] # "/"
             ELSE 0
        head == SubSeq(path, 1, i)
    IN  IF \E k \in 1 .. Len(head) : head[k] # "/" THEN RStripSlash(head) ELSE head

\* os.path.join(a, b) (line 172)
Join(a, b) ==
    IF b # <<>> /\ b[1] = "/" THEN b
    ELSE IF a = <<>> \/ a[Len(a)] = "/" THEN a \o b
    ELSE a \o <<"/">> \o b

\* build_segment_name(first_path, segment_name) (lines 162-172)
build_segment_name(first_path, segment_name) ==
    Join(DirName(first_path), segment_name)

----------------------------------------------------------------------------
\* Segment (segment_reader.py:9-25)

\* name = None
NoName == <<"None">>

Segment(start, end, name) ==
    [start |-> start, end |-> end,
     name |-> IF name = NoName THEN Format(start) \o <<"_">> \o Format(end) ELSE name]

\* The segments a caller builds with Segment(start, end).
Segments == {Segment(s, e, NoName) : s \in Timestamps, e \in Timestamps}

\* The closed window of the specification: start <= t <= end.
InWindow(t, seg) == seg.start <= t /\ t <= seg.end

----------------------------------------------------------------------------
\* FileReader and FileReaderList (file_reader.py, from the specification)

\* next(file_reader): what the decoder can produce for a reader that has
\* delivered o records and has (e) or has not reported its end: the end, or a
\* record with some timestamp. A reader that has reported its end keeps doing so.
FileReaderNext(o, e) ==
    IF e \/ o >= MaxRecs
    THEN {[stop |-> TRUE, ts |-> DefaultTimestamp]}
    ELSE {[stop |-> TRUE, ts |-> DefaultTimestamp]}
         \cup {[stop |-> FALSE, ts |-> t] : t \in Timestamps}

\* next(file_readers), with n files opened so far out of nf: open the next
\* file, or raise StopIteration and leave no current reader when none is left.
FileReaderListNext(n, nf) ==
    IF n < nf
    THEN [raised |-> FALSE, nopened |-> n + 1, current |-> n + 1]
    ELSE [raised |-> TRUE, nopened |-> n, current |-> NoReader]

\* The path of file f of the list: the first two files lie in different
\* directories, a third in the current directory, any other in the root.
FilePath(f) ==
    CASE f = 1 -> <<"a", "/", "1">>
      [] f = 2 -> <<"b", "/", "c", "/", "2">>
      [] f = 3 -> <<"3">>
      [] OTHER -> <<"/">> \o FormatWhole(f)

\* file_reader.name: the name of a FileReader is the path of its file.
FileReaderName(f) == FilePath(f)

----------------------------------------------------------------------------
\* SegmentReader.__next__ (segment_reader.py:42-67)

\* Lines 59-67: what the loop does with a timestamp.
Classify(timestamp, seg) ==
    IF Less(timestamp, seg.start) THEN "continue"
    ELSE IF Less(seg.end, timestamp) THEN "raise"
    ELSE "return"

\* The result of one call, from the loop's state s: the cursor's reader and the
\* chain after it, what it returned (result: "msg" a record, "None" the value of
\* msg when no record was read, "StopIteration"), the timestamp line 57 computed
\* last, and the records the call consumed, in order, each <<file, timestamp>>.
Outcome(s, result, ts) ==
    [fr |-> s.fr, off |-> s.off, eof |-> s.eof, nopened |-> s.nopened,
     current |-> s.current, reads |-> s.reads, result |-> result, ts |-> ts]

\* As SegmentReaderNext, had the record past the end of the segment been left
\* in its reader for the next cursor.
RECURSIVE SegmentReaderNext_PushBack(_, _, _)
SegmentReaderNext_PushBack(seg, chain, s) ==
    LET f == s.fr
        \* line 48: msg = next(self._file_reader)
        OnRecord(r) ==
            LET s1 == [s EXCEPT !.off[f] = @ + 1, !.reads = Append(@, <<f, r.ts>>)]
                what == Classify(r.ts, seg)
            IN  IF what = "continue" THEN SegmentReaderNext_PushBack(seg, chain, s1)
                ELSE IF what = "raise" THEN {Outcome(s, "StopIteration", r.ts)}
                ELSE {Outcome(s1, "msg", r.ts)}
        \* lines 49-55: the reader is exhausted; msg stays None
        OnStop ==
            LET s1 == [s EXCEPT !.eof[f] = TRUE]
                adv == FileReaderListNext(s1.nopened, nfiles)
                s2 == [s1 EXCEPT !.nopened = adv.nopened, !.current = adv.current]
                s3 == [s2 EXCEPT !.fr = adv.current]
                what == Classify(DefaultTimestamp, seg)
            IN  IF ~chain THEN {Outcome(s1, "StopIteration", DefaultTimestamp)}
                ELSE IF adv.raised THEN {Outcome(s2, "StopIteration", DefaultTimestamp)}
                ELSE IF what = "continue" THEN SegmentReaderNext_PushBack(seg, chain, s3)
                ELSE IF what = "raise" THEN {Outcome(s3, "StopIteration", DefaultTimestamp)}
                ELSE {Outcome(s3, "None", DefaultTimestamp)}
    IN  UNION {IF r.stop THEN OnStop ELSE OnRecord(r) :
                   r \in FileReaderNext(s.off[f], s.eof[f])}

RECURSIVE SegmentReaderNext(_, _, _)
SegmentReaderNext(seg, chain, s) ==
    LET f == s.fr
        \* line 48: msg = next(self._file_reader)
        OnRecord(r) ==
            LET s1 == [s EXCEPT !.off[f] = @ + 1, !.reads = Append(@, <<f, r.ts>>)]
                what == Classify(r.ts, seg)
            IN  IF what = "continue" THEN SegmentReaderNext(seg, chain, s1)
                ELSE IF what = "raise" THEN {Outcome(s1, "StopIteration", r.ts)}
                ELSE {Outcome(s1, "msg", r.ts)}
        \* lines 49-55: the reader is exhausted; msg stays None
        OnStop ==
            LET s1 == [s EXCEPT !.eof[f] = TRUE]
                adv == FileReaderListNext(s1.nopened, nfiles)
                s2 == [s1 EXCEPT !.nopened = adv.nopened, !.current = adv.current]
                s3 == [s2 EXCEPT !.fr = adv.current]
                what == Classify(DefaultTimestamp, seg)
            IN  IF ~chain THEN {Outcome(s1, "StopIteration", DefaultTimestamp)}
                ELSE IF adv.raised THEN {Outcome(s2, "StopIteration", DefaultTimestamp)}
                ELSE IF what = "continue" THEN SegmentReaderNext(seg, chain, s3)
                ELSE IF what = "raise" THEN {Outcome(s3, "StopIteration", DefaultTimestamp)}
                ELSE {Outcome(s3, "None", DefaultTimestamp)}
    IN  UNION {IF r.stop THEN OnStop ELSE OnRecord(r) :
                   r \in FileReaderNext(s.off[f], s.eof[f])}

\* The outcomes of a pull on cursor c in the current state.
PullOutcomes(c) ==
    SegmentReaderNext(cursors[c].segment, cursors[c].chain,
        [fr |-> cursors[c].file_reader, off |-> off, eof |-> eof,
         nopened |-> nopened, current |-> current, reads |-> <<>>])

\* As Pull, had the cursor taken its name anew from the reader it moved to.
Pull_Renamed(c, o) ==
    /\ state = "ready"
    /\ cursors' = [cursors EXCEPT
                       ![c].file_reader = o.fr,
                       ![c].name = build_segment_name(FileReaderName(o.fr),
                                                      cursors[c].segment.name)]
    /\ off' = o.off
    /\ eof' = o.eof
    /\ nopened' = o.nopened
    /\ current' = o.current
    /\ ended' = [ended EXCEPT ![c] = @ \/ o.result = "StopIteration"]
    /\ last' = [op |-> "pull", cursor |-> c, result |-> o.result, ts |-> o.ts]
    /\ UNCHANGED <<tlog, nfiles, nsegs, seg_pos, state, cli>>

\* A pull on cursor c, one call of its __next__, with outcome o.
Pull(c, o) ==
    /\ state = "ready"
    /\ cursors' = [cursors EXCEPT ![c].file_reader = o.fr]
    /\ off' = o.off
    /\ eof' = o.eof
    /\ nopened' = o.nopened
    /\ current' = o.current
    /\ ended' = [ended EXCEPT ![c] = @ \/ o.result = "StopIteration"]
    /\ last' = [op |-> "pull", cursor |-> c, result |-> o.result, ts |-> o.ts]
    /\ UNCHANGED <<tlog, nfiles, nsegs, seg_pos, state, cli>>

----------------------------------------------------------------------------
\* SegmentReaderList (segment_reader.py:70-92)

Call(op, c, result) ==
    [op |-> op, cursor |-> c, result |-> result, ts |-> DefaultTimestamp]

\* __init__ (lines 75-81): keep the segments, build the FileReaderList and prime
\* it; the StopIteration of an empty file list is not caught.
SegmentReaderListInit ==
    /\ state = "new"
    /\ LET adv == FileReaderListNext(nopened, nfiles)
       IN  /\ nopened' = adv.nopened
           /\ current' = adv.current
           /\ state' = IF adv.raised THEN "raised" ELSE "ready"
           /\ last' = Call("init", 0, IF adv.raised THEN "StopIteration" ELSE "ok")
    /\ UNCHANGED <<tlog, nfiles, off, eof, nsegs, seg_pos, cursors, ended, hist, cli>>

\* As SegmentReaderListNext, had each cursor been given a FileReaderList of its
\* own, primed anew, in place of the shared one.
SegmentReaderListNext_OwnReaders ==
    /\ state = "ready"
    /\ IF current = NoReader \/ seg_pos >= nsegs
       THEN /\ last' = Call("next_cursor", 0, "StopIteration")
            /\ UNCHANGED <<seg_pos, cursors, ended, out, nopened, current, off, eof>>
       ELSE \E seg \in Segments :
               /\ seg_pos' = seg_pos + 1
               /\ nopened' = 1
               /\ current' = 1
               /\ off' = [f \in Files |-> 0]
               /\ eof' = [f \in Files |-> FALSE]
               /\ cursors' = Append(cursors,
                      [segment |-> seg, file_reader |-> 1, chain |-> TRUE,
                       name |-> build_segment_name(FileReaderName(1), seg.name)])
               /\ ended' = Append(ended, FALSE)
               /\ out' = Append(out, <<>>)
               /\ last' = Call("next_cursor", Len(cursors) + 1, "ok")
    /\ UNCHANGED <<tlog, nfiles, nsegs, state, R, cli>>

\* As SegmentReaderListNext, without the test of lines 89-90: a cursor is
\* built on the last reader even when the chain has run out of files.
SegmentReaderListNext_NoCurrentTest ==
    /\ state = "ready"
    /\ IF seg_pos >= nsegs
       THEN /\ last' = Call("next_cursor", 0, "StopIteration")
            /\ UNCHANGED <<seg_pos, cursors, ended, out>>
       ELSE \E seg \in Segments :
               /\ seg_pos' = seg_pos + 1
               /\ cursors' = Append(cursors,
                      [segment |-> seg, file_reader |-> nopened, chain |-> TRUE,
                       name |-> build_segment_name(FileReaderName(nopened), seg.name)])
               /\ ended' = Append(ended, FALSE)
               /\ out' = Append(out, <<>>)
               /\ last' = Call("next_cursor", Len(cursors) + 1, "ok")
    /\ UNCHANGED <<tlog, nfiles, nopened, current, off, eof, nsegs, state, R, cli>>

\* As SegmentReaderListNext, had it handed out its newest cursor once more
\* whenever it has no reader or no segment for a new one.
SegmentReaderListNext_Again ==
    /\ state = "ready"
    /\ IF current = NoReader \/ seg_pos >= nsegs
       THEN /\ last' = IF cursors = <<>>
                       THEN Call("next_cursor", 0, "StopIteration")
                       ELSE Call("next_cursor", Len(cursors), "ok")
            /\ UNCHANGED <<seg_pos, cursors, ended, out>>
       ELSE \E seg \in Segments :
               /\ seg_pos' = seg_pos + 1
               /\ cursors' = Append(cursors,
                      [segment |-> seg, file_reader |-> current, chain |-> TRUE,
                       name |-> build_segment_name(FileReaderName(current), seg.name)])
               /\ ended' = Append(ended, FALSE)
               /\ out' = Append(out, <<>>)
               /\ last' = Call("next_cursor", Len(cursors) + 1, "ok")
    /\ UNCHANGED <<tlog, nfiles, nopened, current, off, eof, nsegs, state, R, cli>>

\* __next__ (lines 86-92): no current reader, or no segment left, ends the
\* enumeration; otherwise the next segment gets a cursor on the current reader.
SegmentReaderListNext ==
    /\ state = "ready"
    /\ IF current = NoReader \/ seg_pos >= nsegs
       THEN /\ last' = Call("next_cursor", 0, "StopIteration")
            /\ UNCHANGED <<seg_pos, cursors, ended, out>>
       ELSE \E seg \in Segments :
               /\ seg_pos' = seg_pos + 1
               /\ cursors' = Append(cursors,
                      [segment |-> seg, file_reader |-> current, chain |-> TRUE,
                       name |-> build_segment_name(FileReaderName(current), seg.name)])
               /\ ended' = Append(ended, FALSE)
               /\ out' = Append(out, <<>>)
               /\ last' = Call("next_cursor", Len(cursors) + 1, "ok")
    /\ UNCHANGED <<tlog, nfiles, nopened, current, off, eof, nsegs, state, R, cli>>

----------------------------------------------------------------------------
\* Any caller: the list is built, then cursors are asked for and pulled in any
\* order. The histories R and out of the reads are not kept here.

\* TelemetryLogParam.__init__ (tlog_param.py:118): self.params = {}
NoParams == [id \in {} |-> 0]

\* args.keep when no --keep was given (default=None, line 100), and when some were.
NoKeep == [given |-> FALSE, strs |-> <<>>]

Keep(strs) == [given |-> TRUE, strs |-> strs]

Init ==
    /\ nfiles \in 0 .. MaxFiles
    /\ nsegs \in 0 .. MaxSegs
    /\ nopened = 0
    /\ current = NoReader
    /\ off = [f \in Files |-> 0]
    /\ eof = [f \in Files |-> FALSE]
    /\ seg_pos = 0
    /\ cursors = <<>>
    /\ ended = <<>>
    /\ state = "new"
    /\ last = Call("none", 0, "")
    /\ R = [f \in Files |-> <<>>]
    /\ out = <<>>
    /\ keep = NoKeep
    /\ arg = <<>>
    /\ parsed = <<>>
    /\ segments = <<>>
    /\ reader = "none"
    /\ params = NoParams
    /\ handled = <<>>

PullAny ==
    \E c \in 1 .. Len(cursors) : \E o \in PullOutcomes(c) :
        Pull(c, o) /\ UNCHANGED hist

Next ==
    \/ SegmentReaderListInit
    \/ SegmentReaderListNext
    \/ PullAny

Spec == Init /\ [][Next]_vars

----------------------------------------------------------------------------
\* The consumer's loops, "for reader in reader_list: for msg in reader": a
\* cursor is asked for when the one before has raised StopIteration, and only
\* the newest cursor is pulled. Here the reads are recorded in R and out.

\* The value a pull hands to the consumer: <<file, index, timestamp>> of the
\* record, or NoMsg for None.
NoMsg == <<0, 0, 0>>

Value(o) ==
    IF o.result = "msg" THEN <<o.fr, o.off[o.fr], o.ts>> ELSE NoMsg

RECURSIVE Reveal(_, _)
Reveal(r, reads) ==
    IF reads = <<>> THEN r
    ELSE Reveal([r EXCEPT ![Head(reads)[1]] = Append(@, Head(reads)[2])], Tail(reads))

DrainNextCursor ==
    /\ \/ last.op = "init"
       \/ last.op = "pull" /\ last.result = "StopIteration"
    /\ SegmentReaderListNext

DrainPull ==
    /\ \/ last.op = "next_cursor" /\ last.result = "ok"
       \/ last.op = "pull" /\ last.result # "StopIteration"
    /\ \E o \in PullOutcomes(Len(cursors)) :
          /\ Pull(Len(cursors), o)
          /\ R' = Reveal(R, o.reads)
          /\ out' = IF o.result = "StopIteration" THEN out
                    ELSE [out EXCEPT ![Len(cursors)] = Append(@, Value(o))]

DrainNext ==
    \/ SegmentReaderListInit
    \/ DrainNextCursor
    \/ DrainPull

SpecDrain == Init /\ [][DrainNext]_vars

\* The consumer's loops go on as long as there is a cursor to ask for or to
\* pull: each is a sequential program that takes its next step.
SpecDrainFair == SpecDrain /\ WF_vars(DrainNext)

----------------------------------------------------------------------------
\* parse_segment, parse_segment_args (segment_reader.py:104-148)

\* The limit of line 130, below which a number would be a time since start.
TimeSinceStartLimit == 10000000

\* parse_segment(segment_str): <<>> stands for None.
parse_segment(segment_str) ==
    LET strs == Split(segment_str)
        name == IF Len(strs) = 3 THEN strs[3] ELSE NoName
        start == Float(strs[1])
        end == Float(strs[2])
    IN  IF Len(strs) # 3 /\ Len(strs) # 2 THEN <<>>
        ELSE IF ~start.ok THEN <<>>
        ELSE IF ~end.ok THEN <<>>
        ELSE IF Less(start.val, TimeSinceStartLimit) \/ Less(end.val, TimeSinceStartLimit)
             THEN <<>>
        ELSE <<Segment(start.val, end.val, name)>>

\* As parse_segment_args, had a malformed string ended the loop.
RECURSIVE parse_segment_args_Abort(_)
parse_segment_args_Abort(keep_args) ==
    IF ~keep_args.given \/ keep_args.strs = <<>> THEN <<>>
    ELSE LET segment == parse_segment(Head(keep_args.strs))
         IN  IF segment = <<>> THEN <<>>
             ELSE segment \o parse_segment_args_Abort(Keep(Tail(keep_args.strs)))

\* parse_segment_args(keep_args): the loop of lines 144-147, from the first
\* string on; parse_segment's segment, when there is one, is appended.
RECURSIVE parse_segment_args(_)
parse_segment_args(keep_args) ==
    IF ~keep_args.given \/ keep_args.strs = <<>> THEN <<>>
    ELSE parse_segment(Head(keep_args.strs))
             \o parse_segment_args(Keep(Tail(keep_args.strs)))

\* The --keep strings of the model.
MaxKeep == 3

S(start, end) == start \o <<",">> \o end

NumberStrs ==
    {<<"1", "e", "7">>, <<"2", "e", "7">>, <<"5", "0", "0">>, <<"n", "a", "n">>,
     <<"x">>, <<"1", "e">>, <<>>}

NameStrs == {<<"s">>, <<>>}

PassOne ==
    S(<<"1", "0", "0", "0", "0", "0", "0", "0", "0", "0">>,
      S(<<"2", "0", "0", "0", "0", "0", "0", "0", "0", "0">>,
        <<"p", "a", "s", "s", "1">>))

ArgStrs ==
    NumberStrs
    \cup {S(a, b) : a \in NumberStrs, b \in NumberStrs}
    \cup {S(a, S(b, n)) : a \in NumberStrs, b \in NumberStrs, n \in NameStrs}
    \cup {S(a, S(a, S(n, n))) : a \in NumberStrs, n \in NameStrs}
    \cup {PassOne, S(<<"5", "0", "0">>, <<"6", "0", "0">>)}

KeepStrs ==
    {S(<<"1", "e", "7">>, <<"2", "e", "7">>),
     S(<<"2", "e", "7">>, S(<<"1", "e", "7">>, <<"s">>)),
     S(<<"5", "0", "0">>, <<"2", "e", "7">>),
     S(<<"x">>, <<"2", "e", "7">>),
     <<"1", "e", "7">>,
     S(<<"n", "a", "n">>, <<"1", "e", "7">>)}

RECURSIVE SeqsUpTo(_, _)
SeqsUpTo(set, n) ==
    IF n = 0 THEN {<<>>}
    ELSE LET shorter == SeqsUpTo(set, n - 1)
         IN  shorter \cup {Append(q, x) : q \in shorter, x \in set}

KeepArgs == {NoKeep} \cup {Keep(strs) : strs \in SeqsUpTo(KeepStrs, MaxKeep)}

\* The state before a call of one of the functions of the command line: no
\* reader list exists yet.
BeforeCall ==
    /\ nsegs = 0
    /\ nopened = 0
    /\ current = NoReader
    /\ off = [f \in Files |-> 0]
    /\ eof = [f \in Files |-> FALSE]
    /\ seg_pos = 0
    /\ cursors = <<>>
    /\ ended = <<>>
    /\ state = "call"
    /\ last = Call("none", 0, "")
    /\ R = [f \in Files |-> <<>>]
    /\ out = <<>>
    /\ parsed = <<>>
    /\ segments = <<>>
    /\ reader = "none"
    /\ params = NoParams
    /\ handled = <<>>

\* One call of parse_segment, on any of the strings ArgStrs.
InitParse ==
    /\ BeforeCall
    /\ nfiles = 0
    /\ keep = NoKeep
    /\ arg \in ArgStrs

ParseSegment ==
    /\ state = "call"
    /\ parsed' = parse_segment(arg)
    /\ state' = "returned"
    /\ UNCHANGED <<tlog, nfiles, nopened, current, off, eof, nsegs, seg_pos, cursors,
                   last, ended, hist, keep, arg, segments, reader>>

SpecParse == InitParse /\ [][ParseSegment]_vars

\* One call of parse_segment_args, on None or on any list of at most MaxKeep
\* of the strings KeepStrs.
InitArgs ==
    /\ BeforeCall
    /\ nfiles = 0
    /\ keep \in KeepArgs
    /\ arg = <<>>

ParseSegmentArgs ==
    /\ state = "call"
    /\ segments' = parse_segment_args(keep)
    /\ state' = "returned"
    /\ UNCHANGED <<tlog, nfiles, nopened, current, off, eof, nsegs, seg_pos, cursors,
                   last, ended, hist, keep, arg, parsed, reader>>

SpecArgs == InitArgs /\ [][ParseSegmentArgs]_vars

----------------------------------------------------------------------------
\* choose_reader_list (segment_reader.py:151-159) and the consumer's loops
\* over the FileReaderList it returns.

InitChoose ==
    /\ BeforeCall
    /\ nfiles \in 0 .. MaxFiles
    /\ keep \in KeepArgs
    /\ arg = <<>>

\* As choose_reader_list, had it primed the FileReaderList it returns the way
\* SegmentReaderList.__init__ primes its own.
choose_reader_list_Primed ==
    /\ state = "call"
    /\ LET segs == parse_segment_args(keep)
           adv == FileReaderListNext(nopened, nfiles)
       IN  /\ segments' = segs
           /\ nopened' = adv.nopened
           /\ current' = adv.current
           /\ IF Len(segs) > 0
              THEN /\ reader' = "SegmentReaderList"
                   /\ nsegs' = Len(segs)
                   /\ state' = IF adv.raised THEN "raised" ELSE "ready"
                   /\ last' = Call("init", 0, IF adv.raised THEN "StopIteration" ELSE "ok")
              ELSE /\ reader' = "FileReaderList"
                   /\ state' = "files"
                   /\ last' = Call("choose", 0, "ok")
                   /\ UNCHANGED nsegs
    /\ UNCHANGED <<tlog, nfiles, off, eof, seg_pos, cursors, ended, hist, keep, arg, parsed>>

\* choose_reader_list(args, types): with a segment, SegmentReaderList(args,
\* segments, types), whose __init__ (lines 75-81) primes the chain and lets the
\* StopIteration of an empty file list through; without, FileReaderList(args,
\* types) as built, no file opened.
choose_reader_list ==
    /\ state = "call"
    /\ LET segs == parse_segment_args(keep)
           adv == FileReaderListNext(nopened, nfiles)
       IN  /\ segments' = segs
           /\ IF Len(segs) > 0
              THEN /\ reader' = "SegmentReaderList"
                   /\ nsegs' = Len(segs)
                   /\ nopened' = adv.nopened
                   /\ current' = adv.current
                   /\ state' = IF adv.raised THEN "raised" ELSE "ready"
                   /\ last' = Call("init", 0, IF adv.raised THEN "StopIteration" ELSE "ok")
              ELSE /\ reader' = "FileReaderList"
                   /\ state' = "files"
                   /\ last' = Call("choose", 0, "ok")
                   /\ UNCHANGED <<nsegs, nopened, current>>
    /\ UNCHANGED <<tlog, nfiles, off, eof, seg_pos, cursors, ended, hist, keep, arg, parsed>>

\* "for reader in reader_list" over the FileReaderList: the next file is opened,
\* or the loop ends.
ForReader ==
    /\ state = "files"
    /\ \/ last.op = "choose"
       \/ last.op = "read" /\ last.result = "StopIteration"
    /\ LET adv == FileReaderListNext(nopened, nfiles)
       IN  /\ nopened' = adv.nopened
           /\ current' = adv.current
           /\ out' = IF adv.raised THEN out ELSE Append(out, <<>>)
           /\ state' = IF adv.raised THEN "done" ELSE "files"
           /\ last' = Call("next_file", adv.current,
                           IF adv.raised THEN "StopIteration" ELSE "ok")
    /\ UNCHANGED <<tlog, nfiles, off, eof, nsegs, seg_pos, cursors, ended, R, cli>>

\* "for msg in reader" over the current FileReader: its next record, or its end.
ForMsg ==
    /\ state = "files"
    /\ \/ last.op = "next_file" /\ last.result = "ok"
       \/ last.op = "read" /\ last.result = "msg"
    /\ \E r \in FileReaderNext(off[current], eof[current]) :
          IF r.stop
          THEN /\ eof' = [eof EXCEPT ![current] = TRUE]
               /\ last' = Call("read", current, "StopIteration")
               /\ UNCHANGED <<off, R, out>>
          ELSE /\ off' = [off EXCEPT ![current] = @ + 1]
               /\ R' = [R EXCEPT ![current] = Append(@, r.ts)]
               /\ out' = [out EXCEPT ![Len(out)] =
                              Append(@, <<current, off[current] + 1, r.ts>>)]
               /\ last' = [op |-> "read", cursor |-> current, result |-> "msg",
                           ts |-> r.ts]
               /\ UNCHANGED eof
    /\ UNCHANGED <<tlog, nfiles, nopened, current, nsegs, seg_pos, cursors, state, ended, cli>>

ChooseNext ==
    \/ choose_reader_list
    \/ ForReader
    \/ ForMsg

SpecChoose == InitChoose /\ [][ChooseNext]_vars

----------------------------------------------------------------------------
\* TelemetryLogParam.handle_param (tlog_param.py:122-143)

MaxMsgs == 3

\* The PARAM_VALUE messages of the model: two parameters, two values, and the
\* types MAV_PARAM_TYPE_INT32 (6) and MAV_PARAM_TYPE_REAL32 (9).
ParamIds == {"EK3_SRC1_POSXY", "BARO1_GND_PRESS"}

ParamValues == {0, 1}

ParamTypes == {6, 9}

ParamValueMessages ==
    [param_id : ParamIds, param_value : ParamValues, param_type : ParamTypes]

\* Param.__init__ (lines 73-76)
Param(param_id, param_value, value_type) ==
    [id |-> param_id, value |-> param_value, type |-> value_type]

\* As handle_param, had it put the new Param in the dict in every case.
handle_param_Replace(dict, msg) ==
    LET new_param == Param(msg.param_id, msg.param_value, msg.param_type)
    IN  [id \in DOMAIN dict \cup {new_param.id} |->
            IF id = new_param.id THEN new_param ELSE dict[id]]

\* handle_param(msg) on the dict self.params, giving the dict after the call;
\* what it prints is left out.
handle_param(dict, msg) ==
    LET new_param == Param(msg.param_id, msg.param_value, msg.param_type)
    IN  IF new_param.id \in DOMAIN dict
        THEN LET old_param == dict[new_param.id]
             IN  IF new_param.value # old_param.value
                 THEN [dict EXCEPT ![new_param.id].value = new_param.value]
                 ELSE dict
        ELSE [id \in DOMAIN dict \cup {new_param.id} |->
                 IF id = new_param.id THEN new_param ELSE dict[id]]

\* A TelemetryLogParam as built (lines 117-120), before any message.
InitParam ==
    /\ BeforeCall
    /\ nfiles = 0
    /\ keep = NoKeep
    /\ arg = <<>>

\* read (lines 158-160) hands the next PARAM_VALUE message to handle_param.
HandleParam ==
    /\ Len(handled) < MaxMsgs
    /\ \E msg \in ParamValueMessages :
          /\ params' = handle_param(params, msg)
          /\ handled' = Append(handled, msg)
    /\ UNCHANGED <<prog, hist, cli>>

SpecParam == InitParam /\ [][HandleParam]_vars

----------------------------------------------------------------------------
\* What the claims speak of.

\* The records read from file f so far, each <<file, index, timestamp>>.
FileRecords(f) == [i \in 1 .. Len(R[f]) |-> <<f, i, R[f][i]>>]

\* R: the records of all files, in file-list order, then in-file order.
RECURSIVE RecordsUpTo(_)
RecordsUpTo(f) == IF f = 0 THEN <<>> ELSE RecordsUpTo(f - 1) \o FileRecords(f)

AllRecords == RecordsUpTo(MaxFiles)

\* The values all cursors have returned, cursor after cursor.
RECURSIVE OutUpTo(_)
OutUpTo(c) == IF c = 0 THEN <<>> ELSE OutUpTo(c - 1) \o out[c]

AllOut == OutUpTo(Len(out))

RECURSIVE IsSubsequence(_, _)
IsSubsequence(a, b) ==
    IF a = <<>> THEN TRUE
    ELSE IF b = <<>> THEN FALSE
    ELSE IF Head(a) = Head(b) THEN IsSubsequence(Tail(a), Tail(b))
    ELSE IsSubsequence(a, Tail(b))

\* The records of sequence recs whose timestamp lies in the window of seg.
RecInWindow(seg, rec) == InWindow(rec[3], seg)

InWindowOf(seg, recs) == SelectSeq(recs, LAMBDA rec : RecInWindow(seg, rec))

\* The records among the values a cursor has returned (None is not a record).
Records(values) == SelectSeq(values, LAMBDA v : v # NoMsg)

\* Every file of the list has been read to its end: R holds all the records.
AllRead == state = "ready" /\ \A f \in 1 .. nfiles : eof[f]

\* The enumeration of the cursors has ended.
Enumerated == last.op = "next_cursor" /\ last.result = "StopIteration"

\* The segments of the cursors start in nondecreasing order and their windows
\* do not overlap; the timestamps of R are nondecreasing.
SegmentsOrdered ==
    \A c, d \in 1 .. Len(cursors) :
        c < d => /\ cursors[c].segment.start <= cursors[d].segment.start
                 /\ cursors[c].segment.end < cursors[d].segment.start

TimestampsOrdered ==
    \A i, j \in 1 .. Len(AllRecords) : i < j => AllRecords[i][3] <= AllRecords[j][3]

----------------------------------------------------------------------------
\* C1: draining the cursors in order yields a subsequence of R, in R's order,
\* and every value a cursor yields is a record whose timestamp lies in the
\* window of that cursor's segment.
C1_SubsequenceInWindow ==
    /\ IsSubsequence(AllOut, AllRecords)
    /\ \A c \in 1 .. Len(out) : \A k \in 1 .. Len(out[c]) :
           out[c][k] # NoMsg /\ RecInWindow(cursors[c].segment, out[c][k])

\* C3: with the segments in nondecreasing start order and non-overlapping, and
\* the timestamps of R nondecreasing, each cursor, drained in order, yields
\* exactly the records of R whose timestamp lies in its window.
C3_ExactlyTheWindow ==
    (AllRead /\ SegmentsOrdered /\ TimestampsOrdered) =>
        \A c \in 1 .. Len(cursors) :
            ended[c] => Records(out[c]) = InWindowOf(cursors[c].segment, AllRecords)

\* The window of cursor c lies before the timestamps of all records of R.
WindowBeforeAll(c) ==
    \A i \in 1 .. Len(AllRecords) : cursors[c].segment.end < AllRecords[i][3]

\* C4: a segment whose window lies before all records of R yields no record, and
\* a later segment, starting after its end, still yields all the records of R
\* in its own window (segments and timestamps ordered as for C3).
C4_EarlySegmentTakesNothing ==
    (AllRead /\ SegmentsOrdered /\ TimestampsOrdered) =>
        \A c \in 1 .. Len(cursors) :
            (ended[c] /\ WindowBeforeAll(c)) =>
                /\ Records(out[c]) = <<>>
                /\ \A d \in 1 .. Len(cursors) :
                       (c < d /\ ended[d]
                          /\ cursors[c].segment.end < cursors[d].segment.start) =>
                           Records(out[d]) = InWindowOf(cursors[d].segment, AllRecords)

\* Cursor c has just ended on a record past its end in file i + 1, having
\* yielded first a record of file i and last a record of file i + 1.
SpansInto(c, i) ==
    /\ last.op = "pull" /\ last.cursor = c /\ last.result = "StopIteration"
    /\ last.ts > cursors[c].segment.end
    /\ cursors[c].file_reader = i + 1
    /\ out[c] # <<>>
    /\ out[c][1][1] = i
    /\ out[c][Len(out[c])][1] = i + 1

\* C6: a cursor whose window covers the end of file i and the start of file
\* i + 1 yields the records of file i in its window, then those of file i + 1;
\* when it has ended the chain's current reader is that of file i + 1, read up
\* to the record the cursor consumed last, and the next cursor is given that
\* reader.
C6_SpansTwoFiles ==
    /\ \A c \in 1 .. Len(cursors) : \A i \in 1 .. MaxFiles - 1 :
           SpansInto(c, i) =>
               /\ out[c] =
                      InWindowOf(cursors[c].segment,
                          SubSeq(FileRecords(i), out[c][1][2], Len(R[i])))
                      \o InWindowOf(cursors[c].segment, FileRecords(i + 1))
               /\ current = i + 1
               /\ off[i + 1] = Len(R[i + 1])
    /\ (last.op = "next_cursor" /\ last.result = "ok" /\ last.cursor > 1) =>
           /\ cursors[last.cursor].file_reader = current
           /\ cursors[last.cursor].file_reader = cursors[last.cursor - 1].file_reader

----------------------------------------------------------------------------
\* The shared read position: the index of the chain's current file (0 before
\* the chain is primed, past the last file once it has run out) and how far
\* the current reader has read.
ReadPosition ==
    IF current # NoReader THEN <<current, off[current]>>
    ELSE IF state = "new" THEN <<0, 0>>
    ELSE <<nfiles + 1, 0>>

PositionLeq(p, q) == p[1] < q[1] \/ (p[1] = q[1] /\ p[2] <= q[2])

\* C2: over any sequence of pulls on the cursors of one SegmentReaderList the
\* shared read position never decreases; no reader is rewound and no file is
\* opened a second time, so that no record is read twice; and the record a pull
\* yields is one its reader had not delivered before that pull, so that no
\* record is yielded by two cursors (or twice by one).
C2_ForwardOnly ==
    [][/\ PositionLeq(ReadPosition, ReadPosition')
       /\ \A f \in Files : off[f] <= off'[f]
       /\ nopened <= nopened'
       /\ (current' # current /\ current' # NoReader) => current' > nopened
       /\ (last'.op = "pull" /\ last'.result = "msg") =>
              LET f == cursors'[last'.cursor].file_reader
              IN  off[f] < off'[f]]_vars

\* Two cursors share the reader of the second file, which the first cursor's
\* pull opened: the second cursor has read a record past its end from it, and
\* then the first cursor yields the record after that one.
C2_Witness ==
    /\ Len(cursors) = 2
    /\ cursors[1].file_reader = 2 /\ cursors[2].file_reader = 2
    /\ current = 2
    /\ ended[2] /\ ~ended[1]
    /\ off[2] = 2
    /\ last.op = "pull" /\ last.cursor = 1 /\ last.result = "msg"

\* C7: once a pull on a cursor has raised StopIteration, every later pull on
\* that cursor raises StopIteration too.
C7_EndIsFinal ==
    [][(last'.op = "pull" /\ ended[last'.cursor]) =>
           last'.result = "StopIteration"]_vars

\* C8: the enumeration of the cursors ends when the segments have run out or
\* the chain has no current reader, whichever is first, and only then; once the
\* chain has run out of files it stays so and no further cursor is produced;
\* there are never more cursors than segments.
ChainExhausted == state = "ready" /\ current = NoReader

C8_EnumerationEnds ==
    /\ [](Len(cursors) <= nsegs /\ Len(cursors) = seg_pos)
    /\ [](ChainExhausted => nopened = nfiles)
    /\ [][/\ ChainExhausted => (ChainExhausted' /\ cursors' = cursors)
          /\ last'.op = "next_cursor" =>
                /\ last'.result = "StopIteration" <=>
                       (current = NoReader \/ seg_pos = nsegs)
                /\ last'.result = "StopIteration" => cursors' = cursors
                /\ last'.result = "ok" => Len(cursors') = Len(cursors) + 1]_vars

\* A cursor has run the chain out of files while a segment was left, and the
\* enumeration has ended there.
C8_Witness ==
    /\ ChainExhausted
    /\ seg_pos < nsegs
    /\ Len(cursors) >= 1
    /\ last.op = "next_cursor" /\ last.result = "StopIteration"

----------------------------------------------------------------------------
\* The claim's "x >= y" on numbers: false when x is no number.
Geq(x, y) == x # NaN /\ x >= y

\* C9: parse_segment returns a Segment if and only if the string splits on
\* commas into 2 or 3 fields, the first two fields parse as numbers and both
\* numbers are >= 1e7; the Segment then has these numbers as start and end and
\* the third field as name, or '<start>_<end>' when there are 2 fields.
C9_SegmentIffWellFormed ==
    state = "returned" =>
        LET strs == Split(arg)
            start == Float(strs[1])
            end == Float(strs[2])
            wellformed ==
                /\ Len(strs) \in {2, 3}
                /\ start.ok /\ end.ok
                /\ Geq(start.val, TimeSinceStartLimit)
                /\ Geq(end.val, TimeSinceStartLimit)
        IN  /\ parsed # <<>> <=> wellformed
            /\ wellformed =>
                   parsed = <<[start |-> start.val, end |-> end.val,
                               name |-> IF Len(strs) = 3 THEN strs[3]
                                        ELSE Format(start.val) \o <<"_">>
                                                 \o Format(end.val)]>>

\* The positions of the strings of a list that parse_segment accepts.
ValidAt(strs) == {i \in 1 .. Len(strs) : parse_segment(strs[i]) # <<>>}

\* The position of the k-th of them.
NthValid(strs, k) ==
    CHOOSE i \in ValidAt(strs) : Cardinality({j \in ValidAt(strs) : j <= i}) = k

Without(strs, i) == SubSeq(strs, 1, i - 1) \o SubSeq(strs, i + 1, Len(strs))

\* C10: parse_segment_args returns, for any list of --keep strings, the segments
\* of the strings parse_segment accepts, in the order of the list; the result is
\* the same with any one of the rejected strings taken out of the list; and for
\* None it returns the empty list.
C10_MalformedSkipped ==
    state = "returned" =>
        /\ ~keep.given => segments = <<>>
        /\ Len(segments) = Cardinality(ValidAt(keep.strs))
        /\ \A k \in 1 .. Len(segments) :
               <<segments[k]>> = parse_segment(keep.strs[NthValid(keep.strs, k)])
        /\ \A i \in (1 .. Len(keep.strs)) \ ValidAt(keep.strs) :
               parse_segment_args(Keep(Without(keep.strs, i))) = segments

\* A list of three strings whose first is rejected and whose other two are
\* accepted, with different segments: the two accepted strings, in order,
\* have given the two segments.
C10_Witness ==
    /\ state = "returned"
    /\ keep.given /\ Len(keep.strs) = 3
    /\ ValidAt(keep.strs) = {2, 3}
    /\ Len(segments) = 2
    /\ segments[1] # segments[2]

\* C5: choose_reader_list builds a SegmentReaderList if and only if a segment
\* was parsed, and otherwise returns the FileReaderList, unread; iterated to its
\* end it opens every file of the list, in order, and delivers every record of
\* every file once, in order: the output equals R.
C5_IdentityWithoutSegments ==
    /\ state # "call" =>
           /\ segments = parse_segment_args(keep)
           /\ reader = "SegmentReaderList" <=> Len(segments) > 0
           /\ reader = "FileReaderList" <=> segments = <<>>
    /\ reader = "FileReaderList" =>
           /\ cursors = <<>>
           /\ AllOut = AllRecords
           /\ \A k \in 1 .. Len(out) : out[k] = FileRecords(k)
           /\ state = "done" =>
                  /\ nopened = nfiles
                  /\ Len(out) = nfiles
                  /\ \A f \in 1 .. nfiles : eof[f]

\* --keep strings were given and all were rejected; the FileReaderList has been
\* iterated to its end over two files, each with a record.
C5_Witness ==
    /\ reader = "FileReaderList"
    /\ state = "done"
    /\ keep.given /\ keep.strs # <<>>
    /\ nfiles = 2
    /\ Len(out) = 2
    /\ out[1] # <<>> /\ out[2] # <<>>

\* C11: when --keep strings were given and none of them gave a segment,
\* choose_reader_list does not hand back a reader that iterates the records of
\* the files: no FileReaderList is returned and no record of a file is read.
C11_NothingToDoWithoutValidKeep ==
    (state # "call" /\ keep.given /\ keep.strs # <<>> /\ segments = <<>>) =>
        /\ reader # "FileReaderList"
        /\ \A f \in Files : R[f] = <<>>

\* C12: with a segment parsed and no file in the list, choose_reader_list
\* returns: the StopIteration of the priming next(self._file_readers) does not
\* leave SegmentReaderList.__init__.
C12_EmptyFileListIsNoFailure ==
    (state # "call" /\ Len(segments) > 0 /\ nfiles = 0) =>
        /\ state # "raised"
        /\ last.result # "StopIteration"

\* C13: the name of a SegmentReader is, from its construction on, the directory
\* of the file of the chain's current reader at that moment joined with the
\* name of its segment; no pull changes it, also not one that moves the cursor
\* to a later file. (The name is a function of that directory and the segment
\* name alone, so two cursors that agree on both have the same name.)
C13_NameFixedAtConstruction ==
    [][/\ \A c \in 1 .. Len(cursors) : cursors'[c].name = cursors[c].name
       /\ Len(cursors') > Len(cursors) =>
              LET new == cursors'[Len(cursors')]
              IN  /\ new.name = Join(DirName(FilePath(current)), new.segment.name)
                  /\ \A c \in 1 .. Len(cursors) :
                         (/\ cursors[c].segment.name = new.segment.name
                          /\ cursors[c].name =
                                 Join(DirName(FilePath(current)), new.segment.name))
                             => cursors[c].name = new.name]_vars

\* The cursor of Segment(0, 1), built on the reader of a/1, has moved to the
\* reader of b/c/2 and has yielded a record of it: its name is still a/0_1.
C13_Witness ==
    /\ Len(cursors) >= 1
    /\ cursors[1].segment = Segment(0, 1, NoName)
    /\ cursors[1].file_reader = 2
    /\ cursors[1].name = <<"a", "/", "0", "_", "1">>
    /\ last.op = "pull" /\ last.cursor = 1 /\ last.result = "msg"

\* C14: every record a cursor delivers has a timestamp strictly inside the
\* window of the cursor's segment, start < timestamp < end: a record whose
\* timestamp is the start or the end of the segment is not delivered.
C14_StrictBounds ==
    \A c \in 1 .. Len(out) : \A k \in 1 .. Len(out[c]) :
        out[c][k] # NoMsg =>
            /\ cursors[c].segment.start < out[c][k][3]
            /\ out[c][k][3] < cursors[c].segment.end

\* The readers that have been read to exhaustion.
Exhausted == {f \in Files : eof[f]}

\* C15: SegmentReaderList.__init__ advances the chain once; after it the chain
\* is advanced only by a pull, and only past readers that are exhausted, from
\* the chain's current reader, that of file i, to file i + 1; at every moment the
\* files opened are at most one more than the readers exhausted, every file
\* before the current one has been read to exhaustion (none is skipped) and no
\* file is opened twice.
C15_LazyInOrder ==
    /\ [](state = "ready" =>
             /\ nopened >= 1
             /\ nopened <= Cardinality(Exhausted) + 1
             /\ current \in {NoReader, nopened}
             /\ \A f \in 1 .. nopened - 1 : eof[f]
             /\ current = NoReader => \A f \in 1 .. nfiles : eof[f])
    /\ [][/\ state = "new" => nopened' <= 1
          /\ (state = "ready" /\ (nopened' # nopened \/ current' # current)) =>
                /\ last'.op = "pull"
                /\ current # NoReader
                /\ eof'[current]
                /\ \A f \in current .. nopened' - 1 : eof'[f]
                /\ nopened' >= nopened
                /\ current' = IF current' = NoReader THEN NoReader ELSE nopened'
                /\ current' = NoReader => nopened' = nfiles]_vars

\* C16: a pull that reads a record with a timestamp past the end of its
\* segment raises StopIteration and has consumed that record from the shared
\* reader: this cursor has not yielded it, and no cursor yields it, since a
\* record that a pull yields is always the one its reader delivered last in
\* that very pull.
C16_PastEndRecordIsLost ==
    /\ [][(/\ last'.op = "pull"
           /\ last'.result = "StopIteration"
           /\ last'.ts > cursors'[last'.cursor].segment.end) =>
              LET c == last'.cursor
                  f == cursors'[c].file_reader
                  rec == <<f, off'[f], last'.ts>>
              IN  /\ off'[f] > off[f]
                  /\ Len(R'[f]) = off'[f]
                  /\ R'[f][off'[f]] = last'.ts
                  /\ ended'[c]
                  /\ out' = out
                  /\ \A d \in 1 .. Len(out') : \A k \in 1 .. Len(out'[d]) :
                         out'[d][k] # rec]_vars
    /\ [][\A d \in 1 .. Len(out') : \A k \in 1 .. Len(out'[d]) :
              (d > Len(out) \/ k > Len(out[d])) =>
                  \/ out'[d][k] = NoMsg
                  \/ LET v == out'[d][k]
                     IN  v[2] = off'[v[1]] /\ off[v[1]] < v[2]]_vars

\* The cursor of Segment(0, 0) has ended on the only record of the only file,
\* whose timestamp is 1; the cursor of Segment(1, 1), whose window holds that
\* timestamp, has been drained after it and has yielded nothing.
C16_Witness ==
    /\ nfiles = 1
    /\ Len(cursors) = 2
    /\ cursors[1].segment = Segment(0, 0, NoName)
    /\ cursors[2].segment = Segment(1, 1, NoName)
    /\ R[1] = <<1>>
    /\ eof[1]
    /\ ended[1] /\ ended[2]
    /\ out = <<<<>>, <<>>>>

\* C17: a pull that finds its reader exhausted and is given a new reader by
\* the chain reads from the new reader before it returns: what a pull returns
\* is a record read from a reader (or the end), never None, whatever the
\* window of the segment.
C17_NeverNone ==
    last.op = "pull" => last.result \in {"msg", "StopIteration"}

\* The consumer's loops have ended: the constructor has raised, or the
\* enumeration of the cursors has ended.
Terminated == state = "raised" \/ Enumerated

\* What is left to do: the records not yet delivered, the readers not yet
\* exhausted, the segments not yet handed out, and the calls that open and
\* close the enumeration.
RECURSIVE Undelivered(_)
Undelivered(f) == IF f = 0 THEN 0 ELSE Undelivered(f - 1) + (MaxRecs - off[f])

Measure ==
    Undelivered(MaxFiles)
        + Cardinality({f \in Files : ~eof[f]})
        + (MaxSegs - seg_pos)
        + (IF state = "new" THEN 2 ELSE IF Terminated THEN 0 ELSE 1)

\* A step of the consumer's loops is possible: the list is to be built, a
\* cursor is to be asked for, or the newest cursor is to be pulled and the
\* pull has an outcome.
CanStep ==
    \/ state = "new"
    \/ /\ state = "ready"
       /\ \/ last.op = "init"
          \/ last.op = "pull" /\ last.result = "StopIteration"
    \/ /\ state = "ready"
       /\ \/ last.op = "next_cursor" /\ last.result = "ok"
          \/ last.op = "pull" /\ last.result # "StopIteration"
       /\ PullOutcomes(Len(cursors)) # {}

\* C18: with finitely many files of finitely many records each, enumerating
\* the SegmentReaderList and draining each cursor comes to its end: every step
\* of the consumer's loops (a pull is one step, and returns) lowers a measure
\* that is a natural number, and as long as the loops have not ended a step is
\* possible, so that the loops, which go on while they can, end after finitely
\* many steps; a cursor yields no more records than the files hold.
C18_DrainTerminates ==
    /\ [](Measure \in Nat)
    /\ [][Measure' < Measure]_vars
    /\ [](Terminated <=> ~CanStep)
    /\ [](\A c \in 1 .. Len(out) :
             /\ Len(Records(out[c])) <= Len(AllRecords)
             /\ Len(out[c]) <= Len(AllRecords) + nopened)
    /\ [](\A f \in Files : off[f] = Len(R[f]) /\ off[f] <= MaxRecs)

\* The same as a property of the behaviours of SpecDrainFair.
DrainEnds == <>Terminated

\* The enumeration has ended after two cursors were drained over two files,
\* both read to their end, with records yielded.
C18_Witness ==
    /\ Enumerated
    /\ nfiles = 2
    /\ Len(cursors) = 2
    /\ ended[1] /\ ended[2]
    /\ eof[1] /\ eof[2]
    /\ Len(Records(AllOut)) >= 2

\* C19: a pull on a cursor that has already raised StopIteration changes no
\* shared state: it takes no record from any reader and does not advance the
\* chain.
C19_FinishedPullChangesNothing ==
    [][(last'.op = "pull" /\ ended[last'.cursor]) =>
           /\ off' = off
           /\ nopened' = nopened
           /\ current' = current]_vars

\* The param_ids of the messages handled, and the first and the most recent
\* message of an id.
SeenIds == {handled[i].param_id : i \in 1 .. Len(handled)}

FirstOf(id) ==
    handled[CHOOSE i \in 1 .. Len(handled) :
                /\ handled[i].param_id = id
                /\ \A j \in 1 .. i - 1 : handled[j].param_id # id]

LatestOf(id) ==
    handled[CHOOSE i \in 1 .. Len(handled) :
                /\ handled[i].param_id = id
                /\ \A j \in i + 1 .. Len(handled) : handled[j].param_id # id]

\* C20: after any sequence of PARAM_VALUE messages the dict holds one entry
\* for each param_id seen and no other; its value is that of the most recent
\* message of the id and its type that of the first; no entry is ever removed.
C20_LatestValueFirstType ==
    /\ [](/\ DOMAIN params = SeenIds
          /\ \A id \in SeenIds :
                /\ params[id].id = id
                /\ params[id].value = LatestOf(id).param_value
                /\ params[id].type = FirstOf(id).param_type)
    /\ [][DOMAIN params \subseteq DOMAIN params']_vars

\* Both parameters are in the dict; one of them has been sent again with
\* another value and another type: the value has followed, the type has not.
C20_Witness ==
    /\ DOMAIN params = ParamIds
    /\ \E id \in ParamIds :
          /\ LatestOf(id).param_type # FirstOf(id).param_type
          /\ LatestOf(id).param_value # FirstOf(id).param_value
          /\ params[id].value = LatestOf(id).param_value
          /\ params[id].type # LatestOf(id).param_type

====
